---- MODULE Spec2Model ----
(***************************************************************************)
(* Moderation workflow of the prox2 confessions bot (src/lib/main.ts).     *)
(*                                                                         *)
(* Every inbound delivery is an independent invocation of stageConfession  *)
(* or viewConfession.  An invocation suspends at each await; the external  *)
(* call made there (Airtable table, Slack web client) takes effect and     *)
(* answers in one step, and invocations interleave at the awaits.  The     *)
(* answer of each external call (ok, ok=false, throw) is an input.         *)
(***************************************************************************)
EXTENDS Integers, Sequences, FiniteSets, TLC

\* ---------------------------------------------------------------- bounds
NProc == 3                       \* invocations (deliveries) in one run
Procs == 1..NProc
NView == 2                       \* invocations of a run of SpecView
MaxTsLen == 3                    \* characters of a timestamp header
Texts == {"a", "b"}              \* confession texts
Uids  == {"U1"}                  \* submitter identities
Salts == {"s1"}                  \* outcomes of crypto.randomBytes(16)

\* The platform hands out message timestamps in increasing order; every
\* post of a run gets one, so NProc of them are enough.
TsSet == 1..NProc
NoTs  == 0                       \* field absent / null
NoRecord == [id |-> 0]

\* ------------------------------------------------------------ state
VARIABLES
    table,      \* Airtable table 'Main': record id -> fields
    nextId,     \* next store-assigned id
    staging,    \* messages present in staging_channel
    public,     \* messages present in confessions_channel
    nextTs,     \* next message timestamp of the platform
    op,         \* per invocation: "none", "stage", "view"
    pc,         \* per invocation: the await it is suspended at
    args,       \* per invocation: the arguments of the call
    record,     \* per invocation: local `record` (fields snapshot)
    msgts,      \* per invocation: staging_message.ts / local `ts`
    err,        \* per invocation: the value thrown, "" if none
    log,        \* per invocation: the external calls made, with answers
    req,        \* event handler: the request (headers, body, clock, nonce)
    hpc,        \* event handler: where it is
    verdict,    \* event handler: what verifySignature did
    responses,  \* event handler: the responses written to res
    dms,        \* event handler: direct messages posted
    hlog        \* event handler: the calls made, with answers

wvars == <<table, nextId, staging, public, nextTs,
           op, pc, args, record, msgts, err, log>>

hvars == <<req, hpc, verdict, responses, dms, hlog>>

vars == <<wvars, hvars>>

shared == <<table, nextId, staging, public, nextTs>>

\* ------------------------------------------------------------ helpers
hashUser(uid, salt) == <<"scrypt", uid, salt>>

PublicTextNoId(fields) == <<"*", 0, "*: ", fields.text>>
StagingText(fields) == <<"(staging) *", fields.id, "*: ", fields.text>>

PublicText(fields) == <<"*", fields.id, "*: ", fields.text>>

\* table.create({text, approved: false, uid_salt, uid_hash})
NewFields(id, message, uid_salt, uid_hash) ==
    [id |-> id, text |-> message, approved |-> FALSE, viewed |-> FALSE,
     staging_ts |-> NoTs, published_ts |-> NoTs,
     uid_salt |-> uid_salt, uid_hash |-> uid_hash]

\* table.select({filterByFormula: `{staging_ts} = ${staging_ts}`}).firstPage()
SelectByStagingTs(t, staging_ts) ==
    {id \in DOMAIN t : t[id].staging_ts = staging_ts}

\* record.destroy()
Destroy(t, id) == [i \in DOMAIN t \ {id} |-> t[i]]

Call(name, res) == [call |-> name, res |-> res]

Throw(p, e) ==
    /\ pc' = [pc EXCEPT ![p] = "failed"]
    /\ err' = [err EXCEPT ![p] = e]

Goto(p, l) ==
    /\ pc' = [pc EXCEPT ![p] = l]
    /\ err' = err

Logged(p, name, res) == log' = [log EXCEPT ![p] = Append(@, Call(name, res))]

\* ------------------------------------------------------------ verifySignature
\* A header of the request: absent, a list of strings, or a string.
Absent == [kind |-> "absent", chars |-> <<>>]
Listed == [kind |-> "array", chars |-> <<>>]
Str(chars) == [kind |-> "string", chars |-> chars]

\* The characters parseInt skips before the number (StrWhiteSpaceChar): the
\* blank, TAB, LF, FF, CR; VT, NBSP, U+FEFF and U+1680; and the space and
\* line separators from U+2000 on, which a string of this language cannot
\* hold and which are named by their code points.
WhiteSpace ==
    {" ", "\t", "\n", "\f", "\r"} \cup
    {"", " ", "﻿", " "} \cup
    {"U+2000", "U+2001", "U+2002", "U+2003", "U+2004", "U+2005",
     "U+2006", "U+2007", "U+2008", "U+2009", "U+200A", "U+2028",
     "U+2029", "U+202F", "U+205F", "U+3000"}

TsAlphabet == {"0", "1", "7", "9", "a", "-", "\t"}

TsStrings == UNION {[1..n -> TsAlphabet] : n \in 0..MaxTsLen}

DigitVal == ("0" :> 0) @@ ("1" :> 1) @@ ("2" :> 2) @@ ("3" :> 3) @@ ("4" :> 4)
              @@ ("5" :> 5) @@ ("6" :> 6) @@ ("7" :> 7) @@ ("8" :> 8) @@ ("9" :> 9)

IsDigit(c) == c \in DOMAIN DigitVal

RECURSIVE SkipSpace(_)
SkipSpace(s) ==
    IF s # <<>> /\ Head(s) \in WhiteSpace THEN SkipSpace(Tail(s)) ELSE s

RECURSIVE DigitPrefix(_)
DigitPrefix(s) ==
    IF s # <<>> /\ IsDigit(Head(s)) THEN <<Head(s)>> \o DigitPrefix(Tail(s))
    ELSE <<>>

\* The largest integer the checker computes with.
Widest == 2147483646 + 1

\* A number wider than that is held in two limbs, hi * Base + lo.
Base == 10^8

\* Number.MAX_SAFE_INTEGER + 1 = 2^53 = 9007199254740992: up to it parseInt
\* gives the integer the digits spell, above it the nearest double.
Safe == [hi |-> 90071992, lo |-> 54740992, over |-> FALSE]

\* The integer the numeral s spells, in limbs; over when it is above 2^53,
\* with the limbs at 2^53.
RECURSIVE Big(_)
Big(s) ==
    IF s = <<>> THEN [hi |-> 0, lo |-> 0, over |-> FALSE]
    ELSE LET p == Big(SubSeq(s, 1, Len(s) - 1))
             x == 10 * p.lo + DigitVal[s[Len(s)]]
             hi == 10 * p.hi + x \div Base
             lo == x % Base
         IN IF \/ p.over
               \/ hi > Safe.hi
               \/ hi = Safe.hi /\ lo > Safe.lo
            THEN [Safe EXCEPT !.over = TRUE]
            ELSE [hi |-> hi, lo |-> lo, over |-> FALSE]

\* Whether the limbs b are an integer of at most Widest, and that integer.
Fits(b) ==
    /\ ~b.over
    /\ \/ b.hi < Widest \div Base
       \/ b.hi = Widest \div Base /\ b.lo <= Widest % Base

Whole(b) == b.hi * Base + b.lo

\* parseInt(timestamp, 10): leading white space, a sign, then the longest run
\* of digits; NaN when there is none.  The number is neg and the limbs of
\* its magnitude.
ParseInt(s) ==
    LET t == SkipSpace(s)
        signed == t # <<>> /\ Head(t) \in {"-", "+"}
        d == DigitPrefix(IF signed THEN Tail(t) ELSE t)
        b == Big(d)
    IN IF d = <<>>
       THEN [nan |-> TRUE, neg |-> FALSE, hi |-> 0, lo |-> 0, over |-> FALSE]
       ELSE [nan |-> FALSE, neg |-> signed /\ Head(t) = "-",
             hi |-> b.hi, lo |-> b.lo, over |-> b.over]

MaxSkew == 300

Abs(x) == IF x < 0 THEN 0 - x ELSE x

\* a - b for limbs a >= b, or Widest when it is more than that.
LimbDiff(a, b) ==
    LET borrow == IF a.lo < b.lo THEN 1 ELSE 0
        d == [hi |-> a.hi - b.hi - borrow,
              lo |-> a.lo - b.lo + borrow * Base, over |-> FALSE]
    IN IF Fits(d) THEN Whole(d) ELSE Widest

\* Math.abs(now - t) for the clock now and the number t of ParseInt, or
\* Widest when it is more than that.  The clock is an integer of magnitude
\* at most Widest; a t that is over is further than that from any clock.
Gap(now, t) ==
    LET n == [hi |-> Abs(now) \div Base, lo |-> Abs(now) % Base, over |-> FALSE]
        m == [hi |-> t.hi, lo |-> t.lo, over |-> FALSE]
        zero == t.hi = 0 /\ t.lo = 0
        above == t.hi > n.hi \/ (t.hi = n.hi /\ t.lo >= n.lo)
    IN IF t.over THEN Widest
       ELSE IF ~zero /\ now # 0 /\ t.neg # (now < 0)
       THEN IF Fits(m) /\ Whole(m) <= Widest - Abs(now)
            THEN Whole(m) + Abs(now) ELSE Widest
       ELSE IF above THEN LimbDiff(m, n) ELSE LimbDiff(n, m)

\* `Math.abs(current_timestamp_int - timestamp_int) > 60 * 5`; a comparison
\* with NaN is false.
TooFarInclusive(now, t) == ~t.nan /\ Gap(now, t) >= MaxSkew
TooFar(now, t) == ~t.nan /\ Gap(now, t) > MaxSkew

\* The payloads of the Events API, by the fields the handler reads.
Payloads ==
    {[type |-> "url_verification", challenge |-> "c1", etype |-> "",
      channel_type |-> "", bot |-> FALSE, channel |-> ""],
     [type |-> "event_callback", challenge |-> "", etype |-> "message",
      channel_type |-> "im", bot |-> FALSE, channel |-> "D1"],
     [type |-> "event_callback", challenge |-> "", etype |-> "message",
      channel_type |-> "im", bot |-> TRUE, channel |-> "D1"],
     [type |-> "event_callback", challenge |-> "", etype |-> "message",
      channel_type |-> "channel", bot |-> FALSE, channel |-> "C1"]}

\* An object with none of these fields.
NoFields ==
    [type |-> "", challenge |-> "", etype |-> "", channel_type |-> "",
     bot |-> FALSE, channel |-> ""]

\* A property of req that was never assigned.
Undefined == <<"undefined", NoFields>>

\* req.body once a parser has assigned it.
Object(fields) == <<"object", fields>>

\* The bytes of a request as it arrives: the JSON text of a payload
\* (application/json), that text cut short, the form Slack sends with the
\* payload in its one field (application/x-www-form-urlencoded), or nothing.
Wire(kind, payload) == [kind |-> kind, payload |-> payload]

Wires ==
    {Wire("json", x) : x \in Payloads}
    \cup {Wire(k, CHOOSE x \in Payloads : x.channel_type = "im" /\ ~x.bot) :
             k \in {"cut", "form"}}
    \cup {Wire("empty", NoFields)}

\* buf.toString(encoding || 'utf8')
BufText(w) == <<w.kind, w.payload>>

\* The text of the JSON body of a payload.
RawBody(payload) == BufText(Wire("json", payload))

\* `if (buf && buf.length) { req.rawBody = buf.toString(encoding || 'utf8') }`
rawbody_verify(r, w) ==
    IF w.kind # "empty" THEN [r EXCEPT !.rawBody = BufText(w)] ELSE r

\* What a parser does to req.body before it looks at the request: body-parser
\* 1.x assigns `req.body = req.body || {}` (assigns), 2.x leaves it as it is.
\* These sources do not fix the version of the package.
Entered(r, assigns) ==
    IF assigns /\ r.body = Undefined THEN [r EXCEPT !.body = Object(NoFields)]
    ELSE r

\* parsers[0], body_parser.urlencoded({verify, extended: false}), up to its
\* call of next: a body of its type is read, handed to verify and parsed, a
\* form of the one field payload has no field type; any other is skipped.
urlencoded(r, assigns) ==
    IF r.wire.kind = "form"
    THEN [req |-> [rawbody_verify(r, r.wire) EXCEPT !.body = Object(NoFields)],
          result |-> "next"]
    ELSE [req |-> Entered(r, assigns), result |-> "next"]

\* parsers[1], body_parser.json({verify}), up to its call of next: a body of
\* its type is read and handed to verify, then parsed; text that is no JSON
\* gives next(err); a form or an empty body is skipped.
json(r, assigns) ==
    IF r.wire.kind = "json"
    THEN [req |-> [rawbody_verify(r, r.wire) EXCEPT
                       !.body = Object(r.wire.payload)],
          result |-> "next"]
    ELSE IF r.wire.kind = "cut"
    THEN [req |-> rawbody_verify(Entered(r, assigns), r.wire),
          result |-> "error"]
    ELSE [req |-> Entered(r, assigns), result |-> "next"]

\* The promise of applyMiddleware: `if (result instanceof Error) return
\* reject(result)`, `return resolve(result)`.
applyMiddleware(result) == IF result = "error" THEN "reject" ELSE "resolve"

SigLen == 67

\* 'v0=' + createHmac('sha256', secret).update(sig_base).digest('hex'): a
\* string of 3 + 64 characters that names its key and its text.
Sign(secret, timestamp, rawBody) ==
    [kind |-> "string", secret |-> secret, ts |-> timestamp,
     body |-> rawBody, len |-> SigLen]

\* Any other value of the x-slack-signature header.
OtherSig(kind, what, len) ==
    [kind |-> kind, secret |-> what, ts |-> <<>>,
     body |-> RawBody(CHOOSE x \in Payloads : TRUE), len |-> len]

slack_signing_secret == "secret"

\* crypto.timingSafeEqual(Buffer.from(a), Buffer.from(b)): throws when the
\* two byte lengths differ.
TimingSafeEqual(a, b) ==
    IF a.len # b.len THEN "throw"
    ELSE IF a = b THEN "true" ELSE "false"

verifySignature(r) ==
    IF r.timestamp.kind # "string" THEN "false"
    ELSE IF TooFar(r.now, ParseInt(r.timestamp.chars)) THEN "false"
    ELSE LET my_sig == Sign(slack_signing_secret, r.timestamp.chars, r.rawBody)
             slack_sig == r.signature
         IN IF slack_sig.secret = "undefined" \/ slack_sig.kind # "string"
            THEN "false"
            ELSE TimingSafeEqual(my_sig, slack_sig)

\* The nonce store is no part of these sources: a request either is a replay
\* (validateNonce throws) or is not.
validateNonce(r) == IF r.nonceOk THEN "ok" ELSE "throw"

\* req.rawBody as the parsers leave it for the bytes w.
RawOf(w) == IF w.kind = "empty" THEN Undefined ELSE BufText(w)

\* The signature headers tried with a request: the right one, the right one
\* for another body, for another key, another string of the same length, a
\* shorter and a longer string, the string 'undefined', a list, none.
Signatures(timestamp, w) ==
    {Sign(slack_signing_secret, timestamp, RawOf(w)),
     Sign("other", timestamp, RawOf(w))}
    \cup {Sign(slack_signing_secret, timestamp, RawBody(x)) : x \in Payloads}
    \cup {OtherSig("string", "garbage", SigLen),
          OtherSig("string", "garbage", SigLen - 1),
          OtherSig("string", "garbage", SigLen + 1),
          OtherSig("string", "undefined", 9),
          OtherSig("array", "", 0),
          OtherSig("absent", "", 0)}

Nows == {400}

NoRequest ==
    [nonceOk |-> FALSE, timestamp |-> Absent,
     signature |-> OtherSig("absent", "", 0),
     wire |-> Wire("empty", NoFields), body |-> Undefined,
     rawBody |-> Undefined, now |-> 0]

HandlerOff ==
    /\ req = NoRequest
    /\ hpc = "off"
    /\ verdict = "none"
    /\ responses = <<>>
    /\ dms = {}
    /\ hlog = <<>>

\* ------------------------------------------------------------ initial state
Idle ==
    /\ op = [p \in Procs |-> "none"]
    /\ pc = [p \in Procs |-> "idle"]
    /\ args = [p \in Procs |-> <<>>]
    /\ record = [p \in Procs |-> NoRecord]
    /\ msgts = [p \in Procs |-> NoTs]
    /\ err = [p \in Procs |-> ""]
    /\ log = [p \in Procs |-> <<>>]

Init ==
    /\ table = <<>>
    /\ nextId = 1
    /\ staging = {}
    /\ public = {}
    /\ nextTs = 1
    /\ Idle
    /\ HandlerOff

\* Invocations are numbered in the order they are delivered.
CanStart(p) ==
    /\ pc[p] = "idle"
    /\ \A q \in Procs : q < p => pc[q] # "idle"

\* ------------------------------------------------------------ stageConfession
\* `if (!staging_message.ok) { destroy; throw } ... patchUpdate`
AfterStagePostNoRollback(ok) == IF ok THEN "patch" ELSE "failed"
AfterStagePost(ok) == IF ok THEN "patch" ELSE "rollback"

\* record.patchUpdate({staging_ts: staging_message.ts})
StagePatchFieldsLost(fields, ts) == fields
StagePatchFields(fields, ts) == [fields EXCEPT !.staging_ts = ts]

\* `catch (_) { throw 'Failed to update Airtable record' }`: what the failed
\* update of staging_ts leaves in the table.
OnStagePatchFailedDestroy(t, id) == Destroy(t, id)
OnStagePatchFailed(t, id) == t

\* Entry up to the answer of `await table.create(...)`.
StageCreate(p) ==
    /\ CanStart(p)
    /\ \E message \in Texts, uid \in Uids, uid_salt \in Salts,
          res \in {"ok", "throw"} :
        /\ op' = [op EXCEPT ![p] = "stage"]
        /\ args' = [args EXCEPT ![p] = [message |-> message, uid |-> uid]]
        /\ Logged(p, "table.create", res)
        /\ IF res = "ok"
           THEN LET fields == NewFields(nextId, message, uid_salt,
                                        hashUser(uid, uid_salt))
                IN /\ table' = (nextId :> fields) @@ table
                   /\ nextId' = nextId + 1
                   /\ record' = [record EXCEPT ![p] = fields]
                   /\ Goto(p, "post")
           ELSE /\ Throw(p, "Failed to insert Airtable record")
                /\ UNCHANGED <<table, nextId, record>>
    /\ UNCHANGED <<staging, public, nextTs, msgts, hvars>>

\* Answer of `await web.chat.postMessage({channel: staging_channel, ...})` and
\* the test of staging_message.ok.  A throw of the client is not caught.
StagePost(p) ==
    /\ op[p] = "stage" /\ pc[p] = "post"
    /\ \E res \in {"ok", "notok", "throw"} :
        /\ Logged(p, "postMessage.staging", res)
        /\ IF res = "throw"
           THEN /\ Throw(p, "slack error")
                /\ UNCHANGED <<staging, nextTs, msgts>>
           ELSE /\ IF res = "ok"
                   THEN /\ staging' = staging \cup
                             {[ts |-> nextTs, text |-> StagingText(record[p])]}
                        /\ nextTs' = nextTs + 1
                        /\ msgts' = [msgts EXCEPT ![p] = nextTs]
                   ELSE UNCHANGED <<staging, nextTs, msgts>>
                /\ LET l == AfterStagePost(res = "ok")
                   IN IF l = "failed"
                      THEN Throw(p, "Failed to post message to staging channel")
                      ELSE Goto(p, l)
    /\ UNCHANGED <<table, nextId, public, op, args, record, hvars>>

\* Answer of `await record.destroy()`, then the throw of line 218.  A throw
\* of destroy is not caught.
StageRollback(p) ==
    /\ op[p] = "stage" /\ pc[p] = "rollback"
    /\ \E res \in {"ok", "throw"} :
        /\ res = "ok" => record[p].id \in DOMAIN table
        /\ Logged(p, "record.destroy", res)
        /\ IF res = "ok"
           THEN /\ table' = Destroy(table, record[p].id)
                /\ Throw(p, "Failed to post message to staging channel")
           ELSE /\ Throw(p, "airtable error")
                /\ table' = table
    /\ UNCHANGED <<nextId, staging, public, nextTs, op, args, record, msgts, hvars>>

\* Answer of `await record.patchUpdate({staging_ts})`.
StagePatch(p) ==
    /\ op[p] = "stage" /\ pc[p] = "patch"
    /\ \E res \in {"ok", "throw"} :
        /\ res = "ok" => record[p].id \in DOMAIN table
        /\ Logged(p, "patchUpdate.staging_ts", res)
        /\ IF res = "ok"
           THEN /\ table' = [table EXCEPT ![record[p].id] =
                                StagePatchFields(@, msgts[p])]
                /\ Goto(p, "done")
           ELSE /\ Throw(p, "Failed to update Airtable record")
                /\ table' = OnStagePatchFailed(table, record[p].id)
    /\ UNCHANGED <<nextId, staging, public, nextTs, op, args, record, msgts, hvars>>

\* ------------------------------------------------------------ viewConfession
\* `if (records.length == 1) {... if (approved) publish ...} else throw`
AfterSelectSkipPublish(records, approved) ==
    IF Cardinality(records) = 1 THEN "update" ELSE "failed"
AfterSelectAlwaysPublish(records, approved) ==
    IF Cardinality(records) = 1 THEN "publish" ELSE "failed"
AfterSelectFirstMatch(records, approved) ==
    IF Cardinality(records) >= 1
    THEN IF approved THEN "publish" ELSE "update"
    ELSE "failed"
AfterSelect(records, approved) ==
    IF Cardinality(records) = 1
    THEN IF approved THEN "publish" ELSE "update"
    ELSE "failed"

\* `if (!published_message.ok) throw ...; ts = published_message.ts`
AfterPublishUnchecked(ok) == "update"
AfterPublish(ok) == IF ok THEN "update" ELSE "failed"

\* record.patchUpdate({approved, viewed: true, published_ts: ts})
ViewPatchKeepTs(fields, approved, ts) ==
    [fields EXCEPT !.approved = approved, !.viewed = TRUE,
                   !.published_ts = IF ts = NoTs THEN @ ELSE ts]
ViewPatchNoTs(fields, approved, ts) ==
    [fields EXCEPT !.approved = approved, !.viewed = TRUE]
ViewPatch(fields, approved, ts) ==
    [fields EXCEPT !.approved = approved, !.viewed = TRUE, !.published_ts = ts]

\* web.chat.delete({channel: staging_channel, ts})
ChatDelete(msgs, ts) == {m \in msgs : m.ts # ts}

\* Entry up to the answer of `await table.select(...).firstPage()` and the
\* test of records.length.
ViewSelect(p) ==
    /\ CanStart(p)
    /\ \E staging_ts \in TsSet, approved \in BOOLEAN, res \in {"ok", "throw"} :
        /\ op' = [op EXCEPT ![p] = "view"]
        /\ args' = [args EXCEPT ![p] =
                        [staging_ts |-> staging_ts, approved |-> approved]]
        /\ Logged(p, "table.select", res)
        /\ IF res = "ok"
           THEN LET records == SelectByStagingTs(table, staging_ts)
                    l == AfterSelect(records, approved)
                IN IF l = "failed"
                   THEN /\ Throw(p, "Failed to find single record")
                        /\ record' = record
                   ELSE /\ Goto(p, l)
                        /\ \E id \in records :
                             record' = [record EXCEPT ![p] = table[id]]
           ELSE /\ Throw(p, "Failed to fetch Airtable record!")
                /\ record' = record
    /\ UNCHANGED <<shared, msgts, hvars>>

\* Answer of `await web.chat.postMessage({channel: confessions_channel, ...})`
\* and the test of published_message.ok.  A throw of the client is not caught.
ViewPublish(p) ==
    /\ op[p] = "view" /\ pc[p] = "publish"
    /\ \E res \in {"ok", "notok", "throw"} :
        /\ Logged(p, "postMessage.public", res)
        /\ IF res = "throw"
           THEN /\ Throw(p, "slack error")
                /\ UNCHANGED <<public, nextTs, msgts>>
           ELSE /\ IF res = "ok"
                   THEN /\ public' = public \cup
                             {[ts |-> nextTs, text |-> PublicText(record[p])]}
                        /\ nextTs' = nextTs + 1
                        /\ msgts' = [msgts EXCEPT ![p] = nextTs]
                   ELSE UNCHANGED <<public, nextTs, msgts>>
                /\ LET l == AfterPublish(res = "ok")
                   IN IF l = "failed"
                      THEN Throw(p, "Failed to publish message!")
                      ELSE Goto(p, l)
    /\ UNCHANGED <<table, nextId, staging, op, args, record, hvars>>

\* Answer of `await record.patchUpdate({approved, viewed, published_ts})`.
ViewUpdate(p) ==
    /\ op[p] = "view" /\ pc[p] = "update"
    /\ \E res \in {"ok", "throw"} :
        /\ res = "ok" => record[p].id \in DOMAIN table
        /\ Logged(p, "patchUpdate.view", res)
        /\ IF res = "ok"
           THEN /\ table' = [table EXCEPT ![record[p].id] =
                                ViewPatch(@, args[p].approved, msgts[p])]
                /\ Goto(p, "delete")
           ELSE /\ Throw(p, "Failed to update Airtable record")
                /\ table' = table
    /\ UNCHANGED <<nextId, staging, public, nextTs, op, args, record, msgts, hvars>>

\* Answer of `await web.chat.delete({channel: staging_channel, ts})`.  The
\* answer is not inspected: only a throw is a failure.  The platform throws
\* when there is no such message.
ViewDelete(p) ==
    /\ op[p] = "view" /\ pc[p] = "delete"
    /\ \E res \in {"ok", "notok", "throw"} :
        /\ res = "ok" => \E m \in staging : m.ts = args[p].staging_ts
        /\ Logged(p, "chat.delete", res)
        /\ IF res = "throw"
           THEN /\ Throw(p, "Failed to delete staging message")
                /\ staging' = staging
           ELSE /\ Goto(p, "done")
                /\ staging' = IF res = "ok"
                              THEN ChatDelete(staging, args[p].staging_ts)
                              ELSE staging
    /\ UNCHANGED <<table, nextId, public, nextTs, op, args, record, msgts, hvars>>

\* ------------------------------------------------------------ specifications
Stage(p) ==
    \/ StageCreate(p)
    \/ StagePost(p)
    \/ StageRollback(p)
    \/ StagePatch(p)

View(p) ==
    \/ ViewSelect(p)
    \/ ViewPublish(p)
    \/ ViewUpdate(p)
    \/ ViewDelete(p)

Next == \E p \in Procs : Stage(p) \/ View(p)

Spec == Init /\ [][Next]_vars

\* The same program when deliveries never overlap: an invocation only takes a
\* step while every other one is not started or has ended.
Quiet(p) == \A q \in Procs \ {p} : pc[q] \in {"idle", "done", "failed"}

NextSeq ==
    \E p \in Procs :
        \/ Quiet(p) /\ StageCreate(p)
        \/ Quiet(p) /\ StagePost(p)
        \/ Quiet(p) /\ StageRollback(p)
        \/ Quiet(p) /\ StagePatch(p)
        \/ Quiet(p) /\ ViewSelect(p)
        \/ Quiet(p) /\ ViewPublish(p)
        \/ Quiet(p) /\ ViewUpdate(p)
        \/ Quiet(p) /\ ViewDelete(p)

SpecSeq == Init /\ [][NextSeq]_vars

\* viewConfession against a table that already holds rows when the run
\* starts.  The table outlives every invocation and is written outside the
\* program too, which is why viewConfession tests records.length: rows 1 and
\* 2 carry the timestamp of the same staging message, row 3 that of another.
LegacyRow(id, text, ts) ==
    [NewFields(id, text, "s0", hashUser("U0", "s0")) EXCEPT !.staging_ts = ts]

InitView ==
    /\ table = (1 :> LegacyRow(1, "a", 1)) @@ (2 :> LegacyRow(2, "b", 1))
                  @@ (3 :> LegacyRow(3, "a", 2))
    /\ staging = {[ts |-> 1, text |-> StagingText(table[1])],
                  [ts |-> 2, text |-> StagingText(table[3])]}
    /\ nextId = 4
    /\ public = {}
    /\ nextTs = 3
    /\ Idle
    /\ HandlerOff

NextView == \E p \in 1..NView : View(p)

SpecView == InitView /\ [][NextView]_vars

\* ------------------------------------------------------------ event handler
\* `try { await validateNonce(req) } catch (e) { res.writeHead(400).end(); return }`
AfterNonce(answer) == IF answer = "ok" THEN "verify" ELSE "reject"

\* `if (!isValid) { res.writeHead(400).end(); return }`
AfterVerify(isValid) == IF isValid THEN "dispatch" ELSE "reject"

\* `payload.type == 'event_callback'`, a message in an im, not from a bot.
NeedsDM(payload) ==
    /\ payload.type = "event_callback"
    /\ payload.etype = "message" /\ payload.channel_type = "im"
    /\ ~payload.bot

\* res.writeHead(status).end()
Respond(status) ==
    responses' = Append(responses, [status |-> status, body |-> ""])

HLogged(name, res) == hlog' = Append(hlog, Call(name, res))

\* `await setupMiddlewares(req, res)`, first turn of its loop: parsers[0] has
\* called next and `await applyMiddleware(req, res, parser)` is over.  A
\* rejection is caught nowhere: the handler ends without writing to res.
HandlerUrlencoded ==
    /\ hpc = "start"
    /\ \E assigns \in BOOLEAN :
        LET m == urlencoded(req, assigns) IN
        /\ req' = m.req
        /\ hpc' = IF applyMiddleware(m.result) = "reject" THEN "crashed"
                  ELSE "json"
    /\ UNCHANGED <<wvars, verdict, responses, dms, hlog>>

\* Second turn of the loop: the same for parsers[1]; setupMiddlewares returns
\* after it.  Both parsers are of one package: req.body is still undefined
\* here only when this one does not assign it either.
HandlerJson ==
    /\ hpc = "json"
    /\ LET m == json(req, req.body # Undefined) IN
        /\ req' = m.req
        /\ hpc' = IF applyMiddleware(m.result) = "reject" THEN "crashed"
                  ELSE "nonce"
    /\ UNCHANGED <<wvars, verdict, responses, dms, hlog>>

\* The answer of `await validateNonce(req)`.
HandlerNonce ==
    /\ hpc = "nonce"
    /\ LET answer == validateNonce(req) IN
        /\ HLogged("validateNonce", answer)
        /\ IF AfterNonce(answer) = "reject"
           THEN /\ Respond(400)
                /\ hpc' = "done"
           ELSE /\ hpc' = AfterNonce(answer)
                /\ responses' = responses
    /\ UNCHANGED <<wvars, req, verdict, dms>>

\* verifySignature(req) and what follows it without an await: the rejection,
\* or the dispatch on payload.type up to the call of postMessage or the 204.
\* A throw of verifySignature is not caught: the handler ends without writing
\* to res; so does it when req.body is undefined and `payload.type` throws.
HandlerVerify ==
    /\ hpc = "verify"
    /\ LET v == verifySignature(req) IN
        /\ verdict' = v
        /\ HLogged("verifySignature", v)
        /\ IF v = "throw"
           THEN /\ hpc' = "crashed"
                /\ responses' = responses
           ELSE IF AfterVerify(v = "true") = "reject"
           THEN /\ Respond(400)
                /\ hpc' = "done"
           ELSE IF req.body = Undefined
           THEN /\ hpc' = "crashed"
                /\ responses' = responses
           ELSE IF NeedsDM(req.body[2])
           THEN /\ hpc' = "dm"
                /\ responses' = responses
           ELSE /\ Respond(204)
                /\ hpc' = "done"
    /\ UNCHANGED <<wvars, req, dms>>

\* Answer of `await web.chat.postMessage({channel: data.channel, ...})`, then
\* the 204.  The answer is not inspected; a throw is not caught.
HandlerDM ==
    /\ hpc = "dm"
    /\ \E res \in {"ok", "notok", "throw"} :
        /\ HLogged("postMessage.dm", res)
        /\ dms' = IF res = "ok" THEN dms \cup {req.body[2].channel} ELSE dms
        /\ IF res = "throw"
           THEN /\ hpc' = "crashed"
                /\ responses' = responses
           ELSE /\ Respond(204)
                /\ hpc' = "done"
    /\ UNCHANGED <<wvars, req, verdict>>

\* One delivery to the event endpoint; the request is any of the bounded ones.
InitHandler ==
    /\ table = <<>> /\ nextId = 1 /\ staging = {} /\ public = {} /\ nextTs = 1
    /\ Idle
    /\ \E n \in BOOLEAN, chars \in TsStrings, w \in Wires, c \in Nows :
        \E t \in {Absent, Listed, Str(chars)} :
          \E g \in Signatures(chars, w) :
            req = [nonceOk |-> n, timestamp |-> t, signature |-> g,
                   wire |-> w, body |-> Undefined, rawBody |-> Undefined,
                   now |-> c]
    /\ hpc = "start"
    /\ verdict = "none"
    /\ responses = <<>>
    /\ dms = {}
    /\ hlog = <<>>

NextHandler ==
    \/ HandlerUrlencoded
    \/ HandlerJson
    \/ HandlerNonce
    \/ HandlerVerify
    \/ HandlerDM

SpecHandler == InitHandler /\ [][NextHandler]_vars
\* ------------------------------------------------------------ properties
HasCall(p, name, res) == \E i \in DOMAIN log[p] : log[p][i] = Call(name, res)

Called(p, name) == \E i \in DOMAIN log[p] : log[p][i].call = name

AllOk(p) == \A i \in DOMAIN log[p] : log[p][i].res = "ok"

\* The viewConfession invocations that got hold of row id.
Viewers(id) == {q \in Procs : op[q] = "view" /\ record[q].id = id}

\* The public posts about row id.
PostsOf(id) == {m \in public : m.text[2] = id}

InStaging(ts) == \E m \in staging : m.ts = ts

\* C1: within one viewConfession the effects come in the order publish,
\* persist, delete: chat.delete is only called after the record update has
\* succeeded (the row is then marked viewed), and an approving record update
\* is only made after the public post has succeeded (the post is then in the
\* public channel).
C1_PublishPersistDelete ==
    \A p \in Procs : \A i \in DOMAIN log[p] :
        /\ log[p][i].call = "chat.delete" =>
              /\ \E j \in 1..(i - 1) : log[p][j] = Call("patchUpdate.view", "ok")
              /\ table[record[p].id].viewed
        /\ (log[p][i].call = "patchUpdate.view" /\ args[p].approved) =>
              /\ \E j \in 1..(i - 1) : log[p][j] = Call("postMessage.public", "ok")
              /\ [ts |-> msgts[p], text |-> <<"*", record[p].id, "*: ",
                                              record[p].text>>] \in public

C1_Witness ==
    \E p \in Procs :
        /\ op[p] = "view" /\ pc[p] = "done" /\ args[p].approved
        /\ log[p] = <<Call("table.select", "ok"), Call("postMessage.public", "ok"),
                      Call("patchUpdate.view", "ok"), Call("chat.delete", "ok")>>

\* C2: whatever fails and is retried, no row is posted to the public channel
\* more than once, and no row is approved without a public post.
C2_PublishedAtMostOnce ==
    \A id \in DOMAIN table :
        /\ Cardinality(PostsOf(id)) <= 1
        /\ table[id].approved => PostsOf(id) # {}

\* C3: the decision is written once per row: every successful record update
\* of viewConfession finds the row not yet viewed, sets viewed and writes
\* approved, so that a viewed row is never written again.
C3_DecisionWrittenOnce ==
    [][\A p \in Procs :
          (op[p] = "view" /\ pc[p] = "update" /\ pc'[p] = "delete") =>
              /\ ~table[record[p].id].viewed
              /\ table'[record[p].id].viewed
              /\ table'[record[p].id].approved = args[p].approved]_vars

\* C4 as claimed: when the staging post answered ok = false, then after the
\* failed invocation the row it created is not in the table and no staging_ts
\* was written.
C4_RecordGoneAfterNotOk ==
    \A p \in Procs :
        (HasCall(p, "postMessage.staging", "notok") /\ pc[p] = "failed") =>
            /\ record[p].id \notin DOMAIN table
            /\ msgts[p] = NoTs
            /\ ~Called(p, "patchUpdate.staging_ts")

\* C4, amended: when the staging post answers ok = false, stageConfession
\* writes no staging_ts and calls record.destroy() before it raises anything.
\* When the delete succeeds it raises the staging-post error and the row is
\* gone; when the delete itself throws, that error is raised instead and the
\* row stays, without a staging_ts.
C4_RollbackOnNotOk ==
    \A p \in Procs :
        HasCall(p, "postMessage.staging", "notok") =>
            /\ pc[p] \in {"rollback", "failed"}
            /\ ~Called(p, "patchUpdate.staging_ts")
            /\ msgts[p] = NoTs
            /\ record[p].id \in DOMAIN table =>
                  table[record[p].id].staging_ts = NoTs
            /\ pc[p] = "failed" =>
                  /\ log[p][Len(log[p])].call = "record.destroy"
                  /\ HasCall(p, "record.destroy", "ok") =>
                        /\ err[p] = "Failed to post message to staging channel"
                        /\ record[p].id \notin DOMAIN table
                  /\ HasCall(p, "record.destroy", "throw") =>
                        /\ err[p] # "Failed to post message to staging channel"
                        /\ record[p].id \in DOMAIN table

C4_Witness ==
    \E p \in Procs :
        /\ HasCall(p, "postMessage.staging", "notok")
        /\ pc[p] = "failed"
        /\ err[p] = "Failed to post message to staging channel"
        /\ record[p].id \notin DOMAIN table

\* C5: when the staging post throws, stageConfession has deleted the row it
\* created by the time it has raised.
C5_RollbackOnThrow ==
    \A p \in Procs :
        (HasCall(p, "postMessage.staging", "throw") /\ pc[p] = "failed") =>
            record[p].id \notin DOMAIN table

\* C6: when the public post answers ok = false, viewConfession raises at once:
\* it makes no record update and no chat.delete, the lookup by staging_ts still
\* finds the row, and (no other invocation having got hold of the row) the row
\* is as it was found, unviewed, with its staging message still there.
C6_AbortOnPublishNotOk ==
    \A p \in Procs :
        HasCall(p, "postMessage.public", "notok") =>
            /\ pc[p] = "failed" /\ err[p] = "Failed to publish message!"
            /\ log[p] = <<Call("table.select", "ok"),
                          Call("postMessage.public", "notok")>>
            /\ msgts[p] = NoTs
            /\ SelectByStagingTs(table, args[p].staging_ts) = {record[p].id}
            /\ Viewers(record[p].id) = {p} =>
                  /\ table[record[p].id] = record[p]
                  /\ ~table[record[p].id].viewed
                  /\ ~table[record[p].id].approved
                  /\ table[record[p].id].published_ts = NoTs
                  /\ InStaging(args[p].staging_ts)

C6_Witness ==
    \E p \in Procs :
        /\ HasCall(p, "postMessage.public", "notok")
        /\ Viewers(record[p].id) = {p}
        /\ ~table[record[p].id].viewed
        /\ InStaging(args[p].staging_ts)

\* C7: a viewConfession whose lookup matches no row or more than one row
\* raises in that very step, which changes neither the table nor a channel,
\* and an invocation that has raised makes no further call.
C7_NoSingleRecordNoEffect ==
    [][\A p \in Procs :
          /\ (/\ pc[p] = "idle" /\ op'[p] = "view"
              /\ log'[p] = <<Call("table.select", "ok")>>
              /\ Cardinality(SelectByStagingTs(table, args'[p].staging_ts)) # 1)
             => /\ pc'[p] = "failed"
                /\ err'[p] = "Failed to find single record"
                /\ UNCHANGED shared
          /\ pc[p] = "failed" => (pc'[p] = "failed" /\ log'[p] = log[p])]_vars

C7_Witness ==
    \E p \in Procs, q \in Procs :
        /\ err[p] = "Failed to find single record"
        /\ Cardinality(SelectByStagingTs(table, args[p].staging_ts)) = 2
        /\ err[q] = "Failed to find single record"
        /\ Cardinality(SelectByStagingTs(table, args[q].staging_ts)) = 0
        /\ log[p] = <<Call("table.select", "ok")>>
        /\ log[q] = <<Call("table.select", "ok")>>

\* An invocation of viewConfession that found the row unviewed, was the only
\* one to get hold of it, had every external call succeed and has returned.
CleanView(p, approved) ==
    /\ op[p] = "view" /\ pc[p] = "done"
    /\ args[p].approved = approved
    /\ AllOk(p)
    /\ ~record[p].viewed
    /\ Viewers(record[p].id) = {p}

\* C8: after a clean viewConfession(ts, true) the public channel holds exactly
\* one post about the row, made of the row's id and text only; the row is
\* approved and viewed and its published_ts is the timestamp of that post; and
\* the staging message ts is gone.
C8_ApproveResult ==
    \A p \in Procs :
        CleanView(p, TRUE) =>
            LET id == record[p].id IN
            /\ msgts[p] # NoTs
            /\ PostsOf(id) = {[ts |-> msgts[p],
                               text |-> <<"*", id, "*: ", table[id].text>>]}
            /\ table[id].approved /\ table[id].viewed
            /\ table[id].published_ts = msgts[p]
            /\ ~InStaging(args[p].staging_ts)

C8_Witness ==
    \E p \in Procs :
        /\ CleanView(p, TRUE)
        /\ Cardinality(PostsOf(record[p].id)) = 1
        /\ ~InStaging(args[p].staging_ts)

\* C9: after a clean viewConfession(ts, false) no post about the row was sent
\* to the public channel, the row is viewed and not approved with published_ts
\* empty, and the staging message ts is gone.
C9_DisapproveResult ==
    \A p \in Procs :
        CleanView(p, FALSE) =>
            LET id == record[p].id IN
            /\ ~Called(p, "postMessage.public")
            /\ PostsOf(id) = {}
            /\ ~table[id].approved /\ table[id].viewed
            /\ table[id].published_ts = NoTs
            /\ ~InStaging(args[p].staging_ts)

C9_Witness ==
    \E p \in Procs :
        /\ CleanView(p, FALSE)
        /\ table[record[p].id].viewed
        /\ ~InStaging(args[p].staging_ts)

\* C10: once stageConfession has returned, the lookup by the timestamp of its
\* staging post finds exactly the row it created, holding the submitted text,
\* and until a viewConfession writes the row it is neither approved nor viewed.
C10_StageRoundTrip ==
    \A p \in Procs :
        (op[p] = "stage" /\ pc[p] = "done") =>
            LET id == record[p].id IN
            /\ msgts[p] # NoTs
            /\ SelectByStagingTs(table, msgts[p]) = {id}
            /\ table[id].text = args[p].message
            /\ (\A q \in Viewers(id) : ~HasCall(q, "patchUpdate.view", "ok")) =>
                  (~table[id].approved /\ ~table[id].viewed)

C10_Witness ==
    \E p \in Procs :
        /\ op[p] = "stage" /\ pc[p] = "done"
        /\ SelectByStagingTs(table, msgts[p]) = {record[p].id}
        /\ ~table[record[p].id].viewed
        /\ Viewers(record[p].id) = {}

\* C11: in every state of the table, a row has a published_ts if and only if
\* it is approved.
C11_PublishedIffApproved ==
    \A id \in DOMAIN table :
        (table[id].published_ts # NoTs) <=> table[id].approved

\* A row that was approved and published, and then disapproved by a later
\* viewConfession.
C11_Witness ==
    \E id \in DOMAIN table :
        /\ PostsOf(id) # {}
        /\ table[id].viewed /\ ~table[id].approved
        /\ table[id].published_ts = NoTs

\* C12: the staging message of a row is deleted exactly once, right after the
\* decision is recorded: no two invocations call chat.delete for the same
\* staging_ts, and an invocation that recorded the decision and returned, every
\* call of it answered ok, has deleted the staging message.
C12_DeletedExactlyOnce ==
    /\ \A ts \in TsSet :
          Cardinality({p \in Procs : /\ Called(p, "chat.delete")
                                     /\ args[p].staging_ts = ts}) <= 1
    /\ \A p \in Procs :
          (op[p] = "view" /\ pc[p] = "done" /\ AllOk(p)) =>
              ~InStaging(args[p].staging_ts)

\* Two invocations of viewConfession that both found the same row unviewed:
\* both lookups were answered before either wrote the row back.
Racing(p, q) ==
    /\ p # q
    /\ op[p] = "view" /\ op[q] = "view"
    /\ record[p].id # 0 /\ record[p].id = record[q].id
    /\ ~record[p].viewed /\ ~record[q].viewed

Wrote(p) == HasCall(p, "patchUpdate.view", "ok")

\* C13: nothing holds back either of two racing invocations: when both have
\* approved and written the row, each has made its own public post about the
\* row (two posts), and the row carries what one of its writers wrote.
C13_BothProceed ==
    \A p \in Procs, q \in Procs :
        (Racing(p, q) /\ Wrote(p) /\ Wrote(q)) =>
            LET id == record[p].id IN
            /\ table[id].viewed
            /\ (args[p].approved /\ args[q].approved) =>
                  /\ msgts[p] # msgts[q]
                  /\ \A r \in {p, q} : \E m \in PostsOf(id) : m.ts = msgts[r]
                  /\ Cardinality(PostsOf(id)) >= 2
                  /\ table[id].published_ts \in
                        {msgts[r] : r \in {r \in Viewers(id) : Wrote(r)}}

C13_Witness ==
    \E p \in Procs, q \in Procs :
        /\ Racing(p, q) /\ Wrote(p) /\ Wrote(q)
        /\ args[p].approved /\ args[q].approved
        /\ Cardinality(PostsOf(record[p].id)) = 2

\* C20: when the staging post succeeded and the update of staging_ts failed,
\* stageConfession has raised with nothing undone: the row is still in the
\* table without a staging_ts, the staging message is still posted, and every
\* viewConfession for that message's timestamp whose lookup was answered found
\* no row and raised.
C20_OrphanAfterPatchFailure ==
    \A p \in Procs :
        HasCall(p, "patchUpdate.staging_ts", "throw") =>
            /\ pc[p] = "failed" /\ err[p] = "Failed to update Airtable record"
            /\ ~Called(p, "record.destroy")
            /\ record[p].id \in DOMAIN table
            /\ table[record[p].id].staging_ts = NoTs
            /\ InStaging(msgts[p])
            /\ SelectByStagingTs(table, msgts[p]) = {}
            /\ \A q \in Procs :
                  (/\ op[q] = "view" /\ args[q].staging_ts = msgts[p]
                   /\ HasCall(q, "table.select", "ok")) =>
                      /\ pc[q] = "failed"
                      /\ err[q] = "Failed to find single record"
                      /\ log[q] = <<Call("table.select", "ok")>>

C20_Witness ==
    \E p \in Procs, q \in Procs :
        /\ HasCall(p, "patchUpdate.staging_ts", "throw")
        /\ InStaging(msgts[p])
        /\ op[q] = "view" /\ args[q].staging_ts = msgts[p]
        /\ err[q] = "Failed to find single record"

\* ------------------------------------------------------------ properties of the event handler
HCalled(name) == \E i \in DOMAIN hlog : hlog[i].call = name

\* The handler touched neither the table nor a channel of the workflow, and
\* posted no direct message.
NothingProcessed ==
    /\ table = <<>> /\ staging = {} /\ public = {}
    /\ dms = {}
    /\ ~HCalled("postMessage.dm")

Rejected == responses = <<[status |-> 400, body |-> ""]>>

\* A timestamp header that is a string of decimal digits.
IsNumeral(h) ==
    /\ h.kind = "string"
    /\ h.chars # <<>>
    /\ \A i \in DOMAIN h.chars : h.chars[i] \in
          {"0", "1", "2", "3", "4", "5", "6", "7", "8", "9"}

\* The distance of the timestamp header from the clock, as line 294 takes
\* it: Math.abs(current_timestamp_int - parseInt(timestamp, 10)).
Skew == Gap(req.now, ParseInt(req.timestamp.chars))

RightSignature ==
    /\ req.signature.kind = "string"
    /\ req.signature = Sign("secret", req.timestamp.chars, req.rawBody)

\* C14: the replay check runs before the signature check, and a request that
\* fails either one gets the response 400 at once: nothing else is called, no
\* message is posted and no record is read or written.  The signature check
\* fails when verifySignature returns false and when it throws.
C14_RejectBeforeProcessing ==
    /\ HCalled("verifySignature") => hlog[1] = Call("validateNonce", "ok")
    /\ (~req.nonceOk /\ HCalled("validateNonce")) =>
          /\ hpc = "done" /\ Rejected
          /\ hlog = <<Call("validateNonce", "throw")>>
          /\ verdict = "none"
          /\ NothingProcessed
    /\ verdict \in {"false", "throw"} =>
          /\ hpc = "done" /\ Rejected
          /\ hlog = <<Call("validateNonce", "ok"),
                      Call("verifySignature", verdict)>>
          /\ NothingProcessed

\* C15: a handler that has ended has written exactly one response: 400 when
\* the replay check or the signature check failed, 204 otherwise (stated for
\* the requests whose body was parsed and whose timestamp header is a
\* numeral).
C15_ExactlyOneResponse ==
    (/\ hpc \in {"done", "crashed"} /\ HCalled("validateNonce")
     /\ req.body # Undefined /\ IsNumeral(req.timestamp)) =>
        /\ Len(responses) = 1
        /\ responses[1].status =
              IF ~req.nonceOk \/ verdict # "true" THEN 400 ELSE 204

\* C16: a numeral timestamp more than 300 seconds from the clock is rejected
\* whatever the signature header is, and one at most 300 seconds away is not
\* rejected for its age: with the right signature it is accepted.
C16_StaleTimestampRejected ==
    (verdict # "none" /\ IsNumeral(req.timestamp)) =>
        /\ Skew > 300 => verdict = "false"
        /\ (Skew <= 300 /\ RightSignature) => verdict = "true"

C16_Witness ==
    /\ verdict = "false"
    /\ IsNumeral(req.timestamp) /\ Skew = 301
    /\ RightSignature

\* C17: a request whose timestamp header is missing or is no numeral is never
\* accepted, whatever its signature header is.
C17_NonNumericTimestampRejected ==
    (verdict # "none" /\ ~IsNumeral(req.timestamp)) => verdict # "true"

\* C18: for a numeral timestamp within 300 seconds of the clock,
\* verifySignature returns a boolean, true exactly when the signature header
\* is the string 'v0=' + HMAC of 'v0:' + timestamp + ':' + rawBody.
C18_AcceptsIffHmacMatches ==
    (verdict # "none" /\ IsNumeral(req.timestamp) /\ Skew <= 300) =>
        /\ verdict \in {"true", "false"}
        /\ verdict = "true" <=> RightSignature

\* C19: the response to an authentic url_verification payload (fresh numeral
\* timestamp, right signature, no replay) carries the payload's challenge, and
\* nothing is processed for it.
C19_ChallengeEchoed ==
    (/\ hpc = "done" /\ req.nonceOk /\ req.body[2].type = "url_verification"
     /\ IsNumeral(req.timestamp) /\ Skew <= 300 /\ RightSignature) =>
        /\ Len(responses) = 1
        /\ responses[1].body = req.body[2].challenge
        /\ NothingProcessed
====
